---- MODULE Spec2Model ----
(***************************************************************************)
(* Model of src/python/embedding_service.py: the line-oriented embedding   *)
(* service (main / process_command), the lazily loaded model handle        *)
(* (initialize_model) and the embedding pipeline (format, tokenize,        *)
(* forward, masked mean pooling, L2 normalisation).                        *)
(*                                                                         *)
(* Python values are tagged records [t, s, l]: t is the Python type name   *)
(* ("absent" for a key the JSON object does not carry), s the characters   *)
(* of a str / the decimal digits of an int / the truth digit of a bool,    *)
(* and l the elements of a list.  A character is a one-letter string.      *)
(***************************************************************************)
EXTENDS Integers, Sequences, FiniteSets, TLC

\* ------------------------------------------------------------------ bounds
MaxLines == 3      \* input lines read in one run
MaxLiveLines == 2  \* input lines read in one run checked under fairness
MaxLength == 6     \* stands for max_length=512: tokens kept per row
MaxBatch == 2      \* strings in one batch of the pipeline specification
MaxCalls == 2      \* lines given to the loop entered with any handle
MaxSeq == 3        \* positions of a row in the pooling specification

\* the exception slot of a call that returned normally
NoExc == ""

\* ------------------------------------------------------- Python values
Absent == [t |-> "absent", s |-> <<>>, l |-> <<>>]
None == [t |-> "NoneType", s |-> <<>>, l |-> <<>>]
StrV(cs) == [t |-> "str", s |-> cs, l |-> <<>>]
IntV(ds) == [t |-> "int", s |-> ds, l |-> <<>>]
BoolV(b) == [t |-> "bool", s |-> IF b THEN <<"1">> ELSE <<"0">>, l |-> <<>>]
ListV(xs) == [t |-> "list", s |-> <<>>, l |-> xs]

\* bool(v): Python truthiness, as used by `not text`, `not texts`, `if is_query`
Truthy(v) ==
    CASE v.t = "str" -> Len(v.s) > 0
      [] v.t = "int" -> v.s # <<"0">>
      [] v.t = "bool" -> v.s = <<"1">>
      [] v.t = "list" -> Len(v.l) > 0
      [] OTHER -> FALSE

\* isinstance(v, list)
IsList(v) == v.t = "list"

\* str(v) of a str or an int, as the f-string of the formatter renders it
PyStr(v) == v.s

\* dict.get(key, default): a missing key yields the default
Get(obj, key, default) == IF obj[key].t = "absent" THEN default ELSE obj[key]

\* ------------------------------------------------------------ formatter
\* the text the f-string puts before {text}, written as two symbols
task_description ==
    "Given a web search query, retrieve relevant passages that answer the query"
InstructPrefix == <<"Instruct: " \o task_description \o "\n", "Query: ">>

\* variant: the instruction put before passages as well
format_text_for_embedding_always(text, is_query) ==
    StrV(InstructPrefix \o PyStr(text))

format_text_for_embedding(text, is_query) ==
    IF Truthy(is_query)
    THEN StrV(InstructPrefix \o PyStr(text))
    ELSE text

\* ------------------------------------------------------------- pipeline
\* the tokenizer's vocabulary: special tokens, then the model's symbols
TokenId(tok) ==
    CASE tok = "<s>" -> 0
      [] tok = "<pad>" -> 1
      [] tok = "</s>" -> 2
      [] tok = "a" -> 11
      [] tok = "b" -> 12
      [] tok = "5" -> 15
      [] tok = InstructPrefix[1] -> 21
      [] tok = InstructPrefix[2] -> 22
      [] OTHER -> 3

Max(a, b) == IF a >= b THEN a ELSE b
Min(a, b) == IF a <= b THEN a ELSE b

RECURSIVE MaxLen(_)
MaxLen(rows) ==
    IF rows = <<>> THEN 0 ELSE Max(Len(Head(rows)), MaxLen(Tail(rows)))

\* one row of token ids: <s> characters </s>, truncated to max_length
Tokenize(cs) ==
    CHOOSE ids \in
        {[j \in 1..Len(toks) |-> TokenId(toks[j])] :
            toks \in {<<"<s>">> \o SubSeq(cs, 1, Min(Len(cs), MaxLength - 2))
                                \o <<"</s>">>}} : TRUE

\* padding=True: right-pad every row to the longest row of the batch
PadRow(row, n) == [j \in 1..n |-> IF j <= Len(row) THEN row[j] ELSE TokenId("<pad>")]
MaskRow(row, n) == [j \in 1..n |-> IF j <= Len(row) THEN 1 ELSE 0]

\* the tokenizer accepts a str or a list of str
ValidTextInput(v) ==
    \/ v.t = "str"
    \/ v.t = "list" /\ \A i \in 1..Len(v.l) : v.l[i].t = "str"

\* tokenizer(input, max_length=512, padding=True, truncation=True)
tokenizer_call(input, oc) ==
    IF ~ValidTextInput(input)
    THEN [exc |-> "text input must be of type str or List[str]",
          input_ids |-> <<>>, attention_mask |-> <<>>]
    ELSE IF oc = "tokenizer"
    THEN [exc |-> "tokenizer failed", input_ids |-> <<>>, attention_mask |-> <<>>]
    ELSE CHOOSE enc \in
             {[exc |-> NoExc,
               input_ids |-> [i \in 1..Len(rows) |->
                                 PadRow(rows[i], MaxLen(rows))],
               attention_mask |-> [i \in 1..Len(rows) |->
                                      MaskRow(rows[i], MaxLen(rows))]] :
                 rows \in {IF input.t = "str"
                           THEN <<Tokenize(input.s)>>
                           ELSE [i \in 1..Len(input.l) |->
                                    Tokenize(input.l[i].s)]}} : TRUE

RECURSIVE SumSeq(_)
SumSeq(xs) == IF xs = <<>> THEN 0 ELSE Head(xs) + SumSeq(Tail(xs))

\* the forward pass: the hidden vector of a real token depends on the token,
\* its position and the real tokens of its row (attention ignores masked
\* positions); at a padded position the output is whatever the padded
\* computation leaves there, which depends on the padding
HiddenAt(ids, mask, j) ==
    LET real == [k \in 1..SumSeq(mask) |-> ids[k]]
    IN IF mask[j] = 1
       THEN <<(ids[j] % 7) - 3 + j, (SumSeq(real) % 5) - (ids[j] % 3)>>
       ELSE <<40 + j, Len(ids) - 60>>

\* variant: a forward pass with a random component (the model left in
\* training mode): the outcome picks the output instead of raising
model_call_dropout(enc, oc) ==
    [exc |-> NoExc,
     last_hidden_state |->
         [i \in 1..Len(enc.input_ids) |->
             [j \in 1..Len(enc.input_ids[i]) |->
                 LET h == HiddenAt(enc.input_ids[i], enc.attention_mask[i], j)
                 IN IF oc = "forward" THEN <<h[1] + 1, h[2]>> ELSE h]]]

\* model(**encoded_input): raises, or returns last_hidden_state
model_call(enc, oc) ==
    IF oc = "forward"
    THEN [exc |-> "forward pass failed", last_hidden_state |-> <<>>]
    ELSE [exc |-> NoExc,
          last_hidden_state |->
              [i \in 1..Len(enc.input_ids) |->
                  [j \in 1..Len(enc.input_ids[i]) |->
                      HiddenAt(enc.input_ids[i], enc.attention_mask[i], j)]]]

RECURSIVE VecSum(_)
VecSum(vs) ==
    IF vs = <<>> THEN <<0, 0>>
    ELSE CHOOSE v \in {<<Head(vs)[1] + r[1], Head(vs)[2] + r[2]>> :
                          r \in {VecSum(Tail(vs))}} : TRUE

\* variant: the padded positions left as the forward pass returned them
masked_fill_skipped(hidden, mask) == hidden

\* last_hidden_states.masked_fill(~attention_mask[..., None].bool(), 0.0)
masked_fill(hidden, mask) ==
    [i \in 1..Len(hidden) |->
        [j \in 1..Len(hidden[i]) |->
            IF mask[i][j] = 1 THEN hidden[i][j] ELSE <<0, 0>>]]

\* variant: the plain mean over all positions of the row
average_pool_mean(last_hidden_states, attention_mask) ==
    LET last_hidden == masked_fill(last_hidden_states, attention_mask)
    IN [i \in 1..Len(last_hidden) |->
           [num |-> VecSum(last_hidden[i]), den |-> Len(attention_mask[i])]]

\* a pooled row is the exact quotient num / den
average_pool(last_hidden_states, attention_mask) ==
    LET last_hidden == masked_fill(last_hidden_states, attention_mask)
    IN [i \in 1..Len(last_hidden) |->
           [num |-> VecSum(last_hidden[i]), den |-> SumSeq(attention_mask[i])]]

Abs(x) == IF x < 0 THEN -x ELSE x

RECURSIVE GCD(_, _)
GCD(a, b) == IF b = 0 THEN a ELSE GCD(b, a % b)

\* F.normalize(x, p=2, dim=1): x / max(||x||, eps).  The unit vector
\* v / ||v|| of a rational v is written as the primitive integer vector of
\* its direction; the zero vector stays zero.
normalize_row(p) ==
    CHOOSE v \in {IF g = 0 THEN <<0, 0>>
                              ELSE <<p.num[1] \div g, p.num[2] \div g>> :
                     g \in {GCD(Abs(p.num[1]), Abs(p.num[2]))}} : TRUE

\* variant: the pooled rows returned without F.normalize
normalize_skipped(pooled) == [i \in 1..Len(pooled) |-> pooled[i].num]

normalize(pooled) == [i \in 1..Len(pooled) |-> normalize_row(pooled[i])]

\* ------------------------------------------------------- model handle
\* g bundles the module globals tokenizer and model with what the run has
\* written to standard error and two counters of the loads it has made.
LoadOutcomes == {"ok", "tokenizer", "model"}
CallOutcomes == {"ok", "tokenizer", "forward"}

Uninitialized(g) == g.tokenizer = "None" \/ g.model = "None"

\* variant: the loads without the `is None` guard
initialize_model_reload(g, lo) ==
    LET g1 == [g EXCEPT !.stderr = Append(@, "Initializing E5 model..."),
                        !.attempts = @ + 1]
    IN CASE lo = "tokenizer" ->
              [g |-> [g1 EXCEPT !.tokenizer = "None"],
               exc |-> "tokenizer load failed"]
         [] lo = "model" ->
              [g |-> [g1 EXCEPT !.tokenizer = "loaded", !.model = "None"],
               exc |-> "model load failed"]
         [] OTHER ->
              [g |-> [g1 EXCEPT !.tokenizer = "loaded", !.model = "loaded",
                                !.loads = @ + 1,
                                !.stderr = Append(@, "Model initialized: intfloat/multilingual-e5-large-instruct")],
               exc |-> NoExc]

\* variant: the closing message printed outside the `if`
initialize_model_noisy(g, lo) ==
    IF Uninitialized(g)
    THEN initialize_model_reload(g, lo)
    ELSE [g |-> [g EXCEPT !.stderr = Append(@, "Model initialized: intfloat/multilingual-e5-large-instruct")],
          exc |-> NoExc]

initialize_model(g, lo) ==
    IF Uninitialized(g)
    THEN LET g1 == [g EXCEPT !.stderr = Append(@, "Initializing E5 model..."),
                             !.attempts = @ + 1]
         IN CASE lo = "tokenizer" ->
                   [g |-> g1, exc |-> "tokenizer load failed"]
              [] lo = "model" ->
                   [g |-> [g1 EXCEPT !.tokenizer = "loaded"],
                    exc |-> "model load failed"]
              [] OTHER ->
                   [g |-> [g1 EXCEPT !.tokenizer = "loaded", !.model = "loaded",
                                     !.loads = @ + 1,
                                     !.stderr = Append(@, "Model initialized: intfloat/multilingual-e5-large-instruct")],
                    exc |-> NoExc]
    ELSE [g |-> g, exc |-> NoExc]

\* A function's body is written as a chain of steps: each step receives the
\* value of the call made before it and either raises (exc) or goes on.  The
\* value of a call is bound as the element of a one-element set, so that it
\* is computed once however often the next step reads it.

\* lines 67-72: pool, normalise, first row as a list
generate_embedding_pool(g, encoded_input, model_output) ==
    IF model_output.exc # NoExc
    THEN [g |-> g, exc |-> model_output.exc, val |-> <<>>]
    ELSE [g |-> g, exc |-> NoExc,
          val |-> CHOOSE v \in {<<normalize(embeddings)[1]>> :
                      embeddings \in
                          {average_pool(model_output.last_hidden_state,
                                        encoded_input.attention_mask)}} : TRUE]

\* lines 63-65: the forward pass on the encoded input
generate_embedding_forward(g, encoded_input, oc) ==
    IF encoded_input.exc # NoExc
    THEN [g |-> g, exc |-> encoded_input.exc, val |-> <<>>]
    ELSE CHOOSE r \in {generate_embedding_pool(g, encoded_input, model_output) :
                          model_output \in {model_call(encoded_input, oc)}} :
             TRUE

\* lines 51-61: format and tokenize once the handle is there
generate_embedding_tokenize(i, text, is_query, oc) ==
    IF i.exc # NoExc
    THEN [g |-> i.g, exc |-> i.exc, val |-> <<>>]
    ELSE CHOOSE r \in
             {generate_embedding_forward(i.g, encoded_input, oc) :
                  encoded_input \in
                      {tokenizer_call(
                           format_text_for_embedding(text, is_query), oc)}} :
             TRUE

generate_embedding(g, text, is_query, lo, oc) ==
    generate_embedding_tokenize(initialize_model(g, lo), text, is_query, oc)

\* lines 97-102: pool, normalise, all rows as lists
generate_embeddings_pool(g, encoded_input, model_output) ==
    IF model_output.exc # NoExc
    THEN [g |-> g, exc |-> model_output.exc, val |-> <<>>]
    ELSE [g |-> g, exc |-> NoExc,
          val |-> CHOOSE v \in {normalize(embeddings) :
                      embeddings \in
                          {average_pool(model_output.last_hidden_state,
                                        encoded_input.attention_mask)}} : TRUE]

\* lines 93-95: the forward pass on the encoded batch
generate_embeddings_forward(g, encoded_input, oc) ==
    IF encoded_input.exc # NoExc
    THEN [g |-> g, exc |-> encoded_input.exc, val |-> <<>>]
    ELSE CHOOSE r \in {generate_embeddings_pool(g, encoded_input,
                                                model_output) :
                          model_output \in {model_call(encoded_input, oc)}} :
             TRUE

\* line 82: [format_text_for_embedding(text, is_query) for text in texts]
input_texts(texts, is_query) ==
    ListV([k \in 1..Len(texts.l) |->
              format_text_for_embedding(texts.l[k], is_query)])

\* lines 78-91: the argument check, then format and tokenize the batch
generate_embeddings_tokenize(i, texts, is_query, oc) ==
    IF i.exc # NoExc
    THEN [g |-> i.g, exc |-> i.exc, val |-> <<>>]
    ELSE IF ~Truthy(texts) \/ ~IsList(texts)
    THEN [g |-> i.g, exc |-> "Texts must be a non-empty list of strings",
          val |-> <<>>]
    ELSE CHOOSE r \in
             {generate_embeddings_forward(i.g, encoded_input, oc) :
                  encoded_input \in
                      {tokenizer_call(input_texts(texts, is_query), oc)}} :
             TRUE

generate_embeddings(g, texts, is_query, lo, oc) ==
    generate_embeddings_tokenize(initialize_model(g, lo), texts, is_query, oc)

\* ------------------------------------------------------------ responses
\* a response line: the JSON object {"error": msg}, {"status": msg},
\* {"embedding": vecs[1]} or {"embeddings": vecs}
ErrorResult(m) == [kind |-> "error", msg |-> m, vecs |-> <<>>]
StatusResult == [kind |-> "status", msg |-> "initialized", vecs |-> <<>>]
EmbeddingResult(v) == [kind |-> "embedding", msg |-> "", vecs |-> v]
EmbeddingsResult(vs) == [kind |-> "embeddings", msg |-> "", vecs |-> vs]

\* ----------------------------------------------------------- dispatcher
\* the value of the command key: its type and its str() rendering
CmdAbsent == [t |-> "absent", s |-> ""]
\* variant: a missing command key read as the empty string
CmdNone_empty == [t |-> "NoneType", s |-> ""]

CmdNone == [t |-> "NoneType", s |-> "None"]
CmdStr(name) == [t |-> "str", s |-> name]

IsCommand(c, name) == c.t = "str" /\ c.s = name

\* lines 110-111: initialize_model() was called
initialize_return(i) == [g |-> i.g, ret |-> StatusResult, exc |-> i.exc]

\* lines 120-121: generate_embedding was called
embedding_return(e) == [g |-> e.g, ret |-> EmbeddingResult(e.val), exc |-> e.exc]

\* variant: the batch result returned under the key of the single command
embeddings_return_as_embedding(e) ==
    [g |-> e.g, ret |-> EmbeddingResult(e.val), exc |-> e.exc]

\* lines 130-131: generate_embeddings was called
embeddings_return(e) ==
    [g |-> e.g, ret |-> EmbeddingsResult(e.val), exc |-> e.exc]

\* lines 113-121
command_generate_embedding(g, text, is_query, lo, oc) ==
    IF ~Truthy(text)
    THEN [g |-> g, ret |-> ErrorResult("No text provided"), exc |-> NoExc]
    ELSE CHOOSE r \in {embedding_return(e) :
                          e \in {generate_embedding(g, text, is_query, lo, oc)}} :
             TRUE

\* variant: the dispatcher's own check of texts left to generate_embeddings
command_generate_embeddings_unchecked(g, texts, is_query, lo, oc) ==
    CHOOSE r \in {embeddings_return(e) :
                     e \in {generate_embeddings(g, texts, is_query, lo, oc)}} :
        TRUE

\* lines 123-131
command_generate_embeddings(g, texts, is_query, lo, oc) ==
    IF ~Truthy(texts) \/ ~IsList(texts)
    THEN [g |-> g,
          ret |-> ErrorResult("No texts provided or invalid format"),
          exc |-> NoExc]
    ELSE CHOOSE r \in {embeddings_return(e) :
                          e \in {generate_embeddings(g, texts, is_query,
                                                     lo, oc)}} : TRUE

\* lines 109-134: the dispatch on the value of the command key
dispatch(g, command, command_json, lo, oc) ==
    IF IsCommand(command, "initialize")
    THEN initialize_return(initialize_model(g, lo))
    ELSE IF IsCommand(command, "generate_embedding")
    THEN command_generate_embedding(
             g, Get(command_json, "text", None),
             Get(command_json, "is_query", BoolV(FALSE)), lo, oc)
    ELSE IF IsCommand(command, "generate_embeddings")
    THEN command_generate_embeddings(
             g, Get(command_json, "texts", None),
             Get(command_json, "is_query", BoolV(FALSE)), lo, oc)
    ELSE [g |-> g, ret |-> ErrorResult("Unknown command: " \o command.s),
          exc |-> NoExc]

\* the body of the try of process_command, lines 107-134: ret is the
\* value returned, exc the exception raised instead
process_command_try(g, command_json, lo, oc) ==
    IF command_json.ty # "dict"
    THEN [g |-> g, ret |-> ErrorResult(""),
          exc |-> "'" \o command_json.ty \o "' object has no attribute 'get'"]
    ELSE dispatch(g,
                  IF command_json.command.t = "absent"
                  THEN CmdNone ELSE command_json.command,
                  command_json, lo, oc)

\* lines 136-137, except Exception as e: return {"error": str(e)}.  caught
\* is the exception the handler caught, exc the one that leaves the function.
process_command_except(r) ==
    [g |-> r.g,
     result |-> IF r.exc # NoExc THEN ErrorResult(r.exc) ELSE r.ret,
     caught |-> r.exc,
     exc |-> NoExc]

process_command(g, command_json, lo, oc) ==
    CHOOSE result \in {process_command_except(r) :
                          r \in {process_command_try(g, command_json,
                                                     lo, oc)}} : TRUE

\* ------------------------------------------------------------ main loop
\* an input line, described by what json.loads makes of it: malformed or
\* empty text, or a JSON value of Python type ty; a dict carries its keys
Line(kind, ty, command, text, texts, is_query) ==
    [kind |-> kind, ty |-> ty, command |-> command, text |-> text,
     texts |-> texts, is_query |-> is_query]
Malformed == Line("malformed", "", CmdAbsent, Absent, Absent, Absent)
EmptyLine == Line("empty", "", CmdAbsent, Absent, Absent, Absent)
JsonValue(ty) == Line("json", ty, CmdAbsent, Absent, Absent, Absent)
Obj(command, text, texts, is_query) ==
    Line("json", "dict", command, text, texts, is_query)

str_a == StrV(<<"a">>)
str_ab == StrV(<<"a", "b">>)
str_empty == StrV(<<>>)
int_5 == IntV(<<"5">>)

Lines ==
    {Malformed, EmptyLine, JsonValue("list")}
    \cup {Obj(c, Absent, Absent, Absent) :
             c \in {CmdAbsent, CmdStr("foo"), CmdStr("initialize")}}
    \cup {Obj(CmdStr("generate_embedding"), t, Absent, Absent) :
             t \in {Absent, str_empty, str_a}}
    \cup {Obj(CmdStr("generate_embedding"), int_5, Absent, BoolV(TRUE))}
    \cup {Obj(CmdStr("generate_embeddings"), Absent, ts, Absent) :
             ts \in {Absent, str_a, ListV(<<>>), ListV(<<str_a, str_ab>>)}}
    \cup {Obj(CmdStr("generate_embeddings"), Absent, ListV(<<int_5>>),
              BoolV(TRUE))}

\* json.loads(line)
json_loads(line) ==
    IF line.kind # "json"
    THEN [exc |-> "JSONDecodeError", val |-> line]
    ELSE [exc |-> NoExc, val |-> line]

\* variant: print without flush=True leaves the line in the buffer
print_buffered(out, obj) == out

\* print(json.dumps(obj), flush=True): the line is on standard output when
\* the call returns
print_flush(out, obj) == Append(out, obj)

\* lines 147-148 and 151-152: process_command returned r or raised r.exc
main_except_Exception(r) ==
    IF r.exc # NoExc
    THEN [g |-> r.g, result |-> ErrorResult(r.exc), caught |-> r.exc,
          exc |-> NoExc]
    ELSE [g |-> r.g, result |-> r.result, caught |-> r.caught, exc |-> NoExc]

\* variant: the loop without its except clauses
loop_body_nocatch(g, line, lo, oc) ==
    IF json_loads(line).exc = "JSONDecodeError"
    THEN [g |-> g, result |-> ErrorResult("Invalid JSON"),
          caught |-> NoExc, exc |-> "JSONDecodeError"]
    ELSE process_command(g, json_loads(line).val, lo, oc)

\* one iteration of `for line in sys.stdin` after the line was read,
\* lines 145-152: result is the object printed, caught the exception a
\* handler caught on the way, exc the exception that leaves the iteration
loop_body(g, line, lo, oc) ==
    IF json_loads(line).exc = "JSONDecodeError"
    THEN [g |-> g, result |-> ErrorResult("Invalid JSON"),
          caught |-> "JSONDecodeError", exc |-> NoExc]
    ELSE CHOOSE result \in
             {main_except_Exception(r) :
                  r \in {process_command(g, json_loads(line).val, lo, oc)}} :
             TRUE

\* variant: main without its call of initialize_model()
main_initialize_skipped(g, lo) == [g |-> g, exc |-> NoExc]

\* the call of initialize_model() main makes before its loop
main_initialize(g, lo) == initialize_model(g, lo)

VARIABLES
    pc,         \* "start", "read" (top of the loop), "line" (a line was read),
                \* "done" (stdin closed), "crashed" (exception left main)
    tokenizer,  \* module global: "None" or "loaded"
    model,      \* module global: "None" or "loaded"
    stdin,      \* the lines read so far
    stdout,     \* the lines written to standard output
    stderr,     \* the lines written to standard error
    loads,      \* number of completed model loads
    attempts,   \* number of load attempts
    caught,     \* per line processed: the exception a handler caught, or NoExc
    pipe        \* the calls of the pipeline specification and their results

vars == <<pc, tokenizer, model, stdin, stdout, stderr, loads, attempts, caught,
          pipe>>

Globals == [tokenizer |-> tokenizer, model |-> model, stderr |-> stderr,
            loads |-> loads, attempts |-> attempts]

SetGlobals(g) ==
    /\ tokenizer' = g.tokenizer
    /\ model' = g.model
    /\ stderr' = g.stderr
    /\ loads' = g.loads
    /\ attempts' = g.attempts

\* no pipeline call under way
NotCalled == [called |-> FALSE, exc |-> NoExc, val |-> <<>>]
PipeIdle == [texts |-> ListV(<<>>), is_query |-> BoolV(FALSE),
             batch |-> NotCalled, singles |-> <<>>]

Init ==
    /\ pipe = PipeIdle
    /\ pc = "start"
    /\ tokenizer = "None"
    /\ model = "None"
    /\ stdin = <<>>
    /\ stdout = <<>>
    /\ stderr = <<>>
    /\ loads = 0
    /\ attempts = 0
    /\ caught = <<>>

\* print(msg, file=sys.stderr) on the two output streams of the process
print_stderr(streams, msg) == [streams EXCEPT !.stderr = Append(@, msg)]

\* variant: the banner printed without file=sys.stderr
main_banner_stdout(streams) ==
    [streams EXCEPT
        !.stdout = Append(@, [kind |-> "text",
                              msg |-> "E5 Embedding Service started",
                              vecs |-> <<>>])]

\* main, line 141: the banner
main_banner(streams) == print_stderr(streams, "E5 Embedding Service started")

\* main, lines 141-142: banner, then initialize_model() outside any try
Startup ==
    /\ pc = "start"
    /\ \E b \in {main_banner([stdout |-> stdout, stderr |-> stderr])} :
          /\ stdout' = b.stdout
          /\ \E i \in {main_initialize([Globals EXCEPT !.stderr = b.stderr],
                                       lo) : lo \in LoadOutcomes} :
                /\ SetGlobals(i.g)
                /\ pc' = IF i.exc = NoExc THEN "read" ELSE "crashed"
    /\ UNCHANGED <<stdin, caught, pipe>>

\* `for line in sys.stdin` yields the next line, in a run of at most n lines
ReadUpTo(n) ==
    /\ pc = "read"
    /\ Len(stdin) < n
    /\ \E line \in Lines : stdin' = Append(stdin, line)
    /\ pc' = "line"
    /\ UNCHANGED <<tokenizer, model, stdout, stderr, loads, attempts, caught, pipe>>

ReadLine == ReadUpTo(MaxLines)

\* the body of the loop, lines 145-152
ProcessLine ==
    /\ pc = "line"
    /\ \E b \in {loop_body(Globals, stdin[Len(stdin)], lo, oc) :
                    lo \in LoadOutcomes, oc \in CallOutcomes} :
          /\ SetGlobals(b.g)
          /\ stdout' = IF b.exc = NoExc
                       THEN print_flush(stdout, b.result) ELSE stdout
          /\ caught' = Append(caught, b.caught)
          /\ pc' = IF b.exc = NoExc THEN "read" ELSE "crashed"
    /\ UNCHANGED <<stdin, pipe>>

\* the input stream is closed: the loop ends and main returns
CloseStdin ==
    /\ pc = "read"
    /\ pc' = "done"
    /\ UNCHANGED <<tokenizer, model, stdin, stdout, stderr, loads, attempts, caught,
                   pipe>>

Next == Startup \/ ReadLine \/ ProcessLine \/ CloseStdin

Spec == Init /\ [][Next]_vars

\* The process is sequential and every call it makes returns or raises, so
\* a step of main that can be taken is taken (Startup, ProcessLine); the
\* input stream is finite and closes, so the for statement gets its next
\* line or the end of input.
ReadLineLive == ReadUpTo(MaxLiveLines)

NextLive == Startup \/ ReadLineLive \/ ProcessLine \/ CloseStdin

SpecLive ==
    /\ Init /\ [][NextLive]_vars
    /\ WF_vars(Startup)
    /\ WF_vars(ProcessLine)
    /\ WF_vars(ReadLineLive \/ CloseStdin)

\* ---------------------------------------- the loop body with any handle
\* The loop of main is entered with the module globals in any state a load
\* can leave them in: nothing loaded, the tokenizer alone (the model load
\* raised), or both; this is how process_command finds them when a caller
\* other than main drives it.
FrameInit ==
    /\ pc = "read"
    /\ \E h \in {<<"None", "None", 0, 0>>, <<"loaded", "None", 0, 1>>,
                  <<"loaded", "loaded", 1, 1>>} :
          /\ tokenizer = h[1]
          /\ model = h[2]
          /\ loads = h[3]
          /\ attempts = h[4]
    /\ stdin = <<>>
    /\ stdout = <<>>
    /\ stderr = <<>>
    /\ caught = <<>>
    /\ pipe = PipeIdle

ReadLineFrame == ReadUpTo(MaxCalls)

FrameNext == ReadLineFrame \/ ProcessLine \/ CloseStdin

SpecFrame == FrameInit /\ [][FrameNext]_vars

\* ------------------------------------------- the pipeline on its own
\* generate_embeddings is called on a batch and generate_embedding on each
\* string of the same batch, in any order, with the same is_query.
str_ba == StrV(<<"b", "a">>)
str_aba == StrV(<<"a", "b", "a">>)
str_abbab == StrV(<<"a", "b", "b", "a", "b">>)
Strings == {str_empty, str_a, str_ba, str_aba, str_abbab}

Batches == UNION {[1..n -> Strings] : n \in 1..MaxBatch}

PipeInit ==
    /\ pc = "pipe"
    /\ \E h \in {"None", "loaded"} :
          /\ tokenizer = h
          /\ model = h
          /\ loads = IF h = "loaded" THEN 1 ELSE 0
          /\ attempts = IF h = "loaded" THEN 1 ELSE 0
    /\ stdin = <<>>
    /\ stdout = <<>>
    /\ stderr = <<>>
    /\ caught = <<>>
    /\ \E ts \in Batches, q \in BOOLEAN :
          pipe = [texts |-> ListV(ts), is_query |-> BoolV(q),
                  batch |-> NotCalled, singles |-> <<>>]

CallBatch ==
    /\ pc = "pipe"
    /\ ~pipe.batch.called
    /\ \E r \in {generate_embeddings(Globals, pipe.texts, pipe.is_query, lo, oc) :
                    lo \in LoadOutcomes, oc \in CallOutcomes} :
          /\ SetGlobals(r.g)
          /\ pipe' = [pipe EXCEPT !.batch = [called |-> TRUE, exc |-> r.exc,
                                             val |-> r.val]]
    /\ UNCHANGED <<pc, stdin, stdout, caught>>

CallSingle ==
    /\ pc = "pipe"
    /\ Len(pipe.singles) < Len(pipe.texts.l)
    /\ \E r \in {generate_embedding(Globals,
                                      pipe.texts.l[Len(pipe.singles) + 1],
                                      pipe.is_query, lo, oc) :
                    lo \in LoadOutcomes, oc \in CallOutcomes} :
          /\ SetGlobals(r.g)
          /\ pipe' = [pipe EXCEPT !.singles =
                          Append(@, [called |-> TRUE, exc |-> r.exc,
                                     val |-> r.val])]
    /\ UNCHANGED <<pc, stdin, stdout, caught>>

PipeNext == CallBatch \/ CallSingle

SpecPipe == PipeInit /\ [][PipeNext]_vars

\* --------------------------------------------------- pooling on its own
\* average_pool is applied to a batch of two rows of hidden vectors with a
\* mask that has at least one real token per row, and to a variant of the
\* batch: other values at masked positions of the first row and, possibly,
\* one more padding column at the right of every row.
HiddenVals == {<<1, -2>>, <<0, 3>>, <<-4, 1>>}

Reverse(xs) == [j \in 1..Len(xs) |-> xs[Len(xs) + 1 - j]]

PoolInit ==
    /\ pc = "pool"
    /\ tokenizer = "loaded" /\ model = "loaded"
    /\ loads = 1 /\ attempts = 1
    /\ stdin = <<>> /\ stdout = <<>> /\ stderr = <<>> /\ caught = <<>>
    /\ \E n \in 1..MaxSeq :
          \E h \in [1..n -> HiddenVals], h2 \in [1..n -> HiddenVals],
             m \in [1..n -> {0, 1}], pad \in {<<>>} \cup {<<v>> : v \in HiddenVals} :
             /\ SumSeq(m) >= 1
             /\ \A j \in 1..n : m[j] = 1 => h2[j] = h[j]
             /\ pipe = [hidden |-> <<h, Reverse(h)>>,
                        mask |-> <<m, [j \in 1..n |-> 1]>>,
                        hidden2 |-> <<h2 \o pad, Reverse(h) \o pad>>,
                        mask2 |-> <<m \o [j \in 1..Len(pad) |-> 0],
                                    [j \in 1..n |-> 1]
                                        \o [j \in 1..Len(pad) |-> 0]>>,
                        pooled |-> <<>>, pooled2 |-> <<>>]

\* embeddings = average_pool(last_hidden_state, attention_mask)
ApplyPool ==
    /\ pc = "pool"
    /\ pipe.pooled = <<>>
    /\ pipe' = [pipe EXCEPT !.pooled = average_pool(pipe.hidden, pipe.mask)]
    /\ UNCHANGED <<pc, tokenizer, model, stdin, stdout, stderr, loads, attempts,
                   caught>>

\* the same call on the variant of the batch
ApplyPoolVariant ==
    /\ pc = "pool"
    /\ pipe.pooled2 = <<>>
    /\ pipe' = [pipe EXCEPT !.pooled2 = average_pool(pipe.hidden2, pipe.mask2)]
    /\ UNCHANGED <<pc, tokenizer, model, stdin, stdout, stderr, loads, attempts,
                   caught>>

PoolNext == ApplyPool \/ ApplyPoolVariant

SpecPool == PoolInit /\ [][PoolNext]_vars

\* ------------------------------------------------- formatting on its own
\* the formatter is applied to each text of a list in turn, and the list
\* comprehension of generate_embeddings to the whole list, with one is_query.
FormatTexts == Strings \cup {int_5}

FormatBatches == UNION {[1..n -> FormatTexts] : n \in 1..MaxBatch}

FormatInit ==
    /\ pc = "format"
    /\ tokenizer = "loaded" /\ model = "loaded"
    /\ loads = 1 /\ attempts = 1
    /\ stdin = <<>> /\ stdout = <<>> /\ stderr = <<>> /\ caught = <<>>
    /\ \E ts \in FormatBatches, q \in BOOLEAN :
          pipe = [texts |-> ListV(ts), is_query |-> BoolV(q),
                  formatted |-> <<>>, input_texts |-> None]

\* input_text = format_text_for_embedding(text, is_query), next text
FormatText ==
    /\ pc = "format"
    /\ Len(pipe.formatted) < Len(pipe.texts.l)
    /\ pipe' = [pipe EXCEPT !.formatted =
                    Append(@, format_text_for_embedding(
                                  pipe.texts.l[Len(pipe.formatted) + 1],
                                  pipe.is_query))]
    /\ UNCHANGED <<pc, tokenizer, model, stdin, stdout, stderr, loads, attempts,
                   caught>>

\* input_texts = [format_text_for_embedding(text, is_query) for text in texts]
FormatList ==
    /\ pc = "format"
    /\ pipe.input_texts = None
    /\ pipe' = [pipe EXCEPT
                    !.input_texts = input_texts(pipe.texts, pipe.is_query)]
    /\ UNCHANGED <<pc, tokenizer, model, stdin, stdout, stderr, loads, attempts,
                   caught>>

FormatNext == FormatText \/ FormatList

SpecFormat == FormatInit /\ [][FormatNext]_vars

\* =============================================================== claims
Ready == tokenizer = "loaded" /\ model = "loaded"
Running == pc \in {"read", "line", "done"}
CurLine == stdin[Len(stdin)]
IsObject(line) == line.kind = "json" /\ line.ty = "dict"
IsCommandLine(line, name) == IsObject(line) /\ IsCommand(line.command, name)

\* a handle as it is right after a successful first load
FreshReady == [tokenizer |-> "loaded", model |-> "loaded", stderr |-> <<>>,
               loads |-> 1, attempts |-> 1]

\* the responses a serving process can give to a line
Answers(line) ==
    {loop_body(FreshReady, line, "ok", oc).result : oc \in CallOutcomes}

\* C1: one response line per input line read, the i-th response answers the
\* i-th line, and the response to a line is on standard output before the
\* next line is read.
C1_OneResponsePerLine ==
    /\ [](/\ pc \in {"start", "crashed"} => stdin = <<>> /\ stdout = <<>>
          /\ pc \in {"read", "done"} => Len(stdout) = Len(stdin)
          /\ pc = "line" => Len(stdout) = Len(stdin) - 1)
    /\ [][/\ Len(stdin') > Len(stdin) => Len(stdout) = Len(stdin)
          /\ stdout' # stdout
                => /\ Len(stdin) = Len(stdout) + 1
                   /\ stdin' = stdin
                   /\ \E r \in Answers(CurLine) : stdout' = Append(stdout, r)
         ]_vars

C1_Witness ==
    /\ pc = "read"
    /\ Len(stdin) = 3
    /\ stdin[1] = Malformed
    /\ stdin[2] = JsonValue("list")
    /\ IsCommandLine(stdin[3], "generate_embeddings")
    /\ stdout[3].kind = "error"
    /\ caught[3] = "forward pass failed"

\* C2: a failure raised while a line is processed does not end the service:
\* the failing line gets an error response carrying the failure's message,
\* the service stays in its loop, and a line whose processing raises nothing
\* gets the answer a freshly started service gives it, whatever failed before.
C2_FailureStaysInLine ==
    /\ [](/\ stdin # <<>> => Running
          /\ Len(caught) = Len(stdout))
    /\ [][stdout' # stdout =>
            LET n == Len(stdout')
            IN IF caught'[n] = NoExc
               THEN stdout'[n]
                      = loop_body(FreshReady, stdin[n], "ok", "ok").result
               ELSE stdout'[n]
                      = ErrorResult(IF caught'[n] = "JSONDecodeError"
                                    THEN "Invalid JSON" ELSE caught'[n])
         ]_vars

C2_Witness ==
    /\ pc = "read"
    /\ Len(stdout) = 3
    /\ caught[1] = "tokenizer failed"
    /\ caught[2] = "JSONDecodeError"
    /\ stdout[3].kind = "embedding"

\* C3 (as claimed): a failed initialization attempt, the first one included,
\* leaves the service alive to load again on the next call: no failed attempt
\* ends the process.
C3_RetryAfterFailedInit ==
    attempts > loads => pc # "crashed"

C5_LoadedAtMostOnce ==
    /\ [](loads <= 1)
    /\ [][Ready => Ready' /\ loads' = loads /\ attempts' = attempts]_vars

C5_Witness ==
    /\ pc = "done"
    /\ loads = 1
    /\ Len(stdout) = 3
    /\ \E i, j, k \in 1..3 :
          /\ stdout[i].kind = "status"
          /\ stdout[j].kind = "embedding"
          /\ caught[k] = "forward pass failed"

\* C6: an initialize command processed when Ready changes no state and is
\* answered {"status": "initialized"}; every initialize command of a run
\* gets that response.
C6_InitializeIdempotent ==
    /\ [](\A i \in 1..Len(stdout) :
             IsCommandLine(stdin[i], "initialize") => stdout[i] = StatusResult)
    /\ [][pc = "line" /\ IsCommandLine(CurLine, "initialize") /\ Ready
            => /\ tokenizer' = tokenizer /\ model' = model
               /\ loads' = loads /\ attempts' = attempts
               /\ stderr' = stderr
               /\ stdout' = Append(stdout, StatusResult)]_vars

C6_Witness ==
    /\ Len(stdout) = 3
    /\ IsCommandLine(stdin[1], "initialize")
    /\ ~IsCommandLine(stdin[2], "initialize")
    /\ IsCommandLine(stdin[3], "initialize")
    /\ stdout[1] = StatusResult
    /\ stdout[3] = StatusResult

NonEmptyListOfStr(v) ==
    /\ v.t = "list"
    /\ Len(v.l) > 0
    /\ \A k \in 1..Len(v.l) : v.l[k].t = "str"

\* C7 (as claimed): a generate_embeddings command whose texts is not a
\* non-empty list of strings is answered exactly
\* {"error": "No texts provided or invalid format"}.
C7_InvalidTextsRejected ==
    \A i \in 1..Len(stdout) :
        IsCommandLine(stdin[i], "generate_embeddings")
        /\ ~NonEmptyListOfStr(stdin[i].texts)
        => stdout[i] = ErrorResult("No texts provided or invalid format")

NonEmptyStr(v) == v.t = "str" /\ Len(v.s) > 0

\* C8 (as claimed): a generate_embedding command with missing or empty text
\* is answered {"error": "No text provided"}, and an embedding is returned
\* only for a text that is a non-empty string.
C8_EmbeddingOnlyForNonEmptyString ==
    \A i \in 1..Len(stdout) :
        IsCommandLine(stdin[i], "generate_embedding")
        => /\ (stdin[i].text.t = "absent" \/ stdin[i].text = str_empty)
                => stdout[i] = ErrorResult("No text provided")
           /\ stdout[i].kind = "embedding" => NonEmptyStr(stdin[i].text)

\* C9 (as claimed): a line that is not a single JSON object is answered
\* exactly {"error": "Invalid JSON"}.
C9_NonObjectIsInvalidJSON ==
    \A i \in 1..Len(stdout) :
        ~IsObject(stdin[i]) => stdout[i] = ErrorResult("Invalid JSON")

\* C10: on a non-empty list of strings generate_embeddings raises or returns
\* one vector per string, and the i-th vector is the one generate_embedding
\* returns for the i-th string alone with the same is_query.
C10_BatchEqualsSingles ==
    pipe.batch.called =>
        IF pipe.batch.exc # NoExc
        THEN pipe.batch.val = <<>>
        ELSE /\ Len(pipe.batch.val) = Len(pipe.texts.l)
             /\ \A k \in 1..Len(pipe.singles) :
                   pipe.singles[k].exc = NoExc
                   => pipe.batch.val[k] = pipe.singles[k].val[1]

C10_Witness ==
    /\ pipe.batch.called
    /\ pipe.batch.exc = NoExc
    /\ pipe.texts.l = <<str_a, str_abbab>>
    /\ Len(pipe.singles) = 2
    /\ pipe.singles[1].exc = NoExc
    /\ pipe.singles[2].exc = NoExc
    /\ pipe.batch.val[1] # pipe.batch.val[2]

\* C11: every response line has one of the four shapes (embedding,
\* embeddings, status initialized, error), none carries a success field
\* together with an error field, and a success shape answers only its own
\* command: embedding only generate_embedding, embeddings only
\* generate_embeddings, the status only initialize.
C11_ResponseShapes ==
    \A i \in 1..Len(stdout) :
        /\ stdout[i].kind \in {"embedding", "embeddings", "status", "error"}
        /\ stdout[i].kind = "error" => stdout[i].vecs = <<>>
        /\ stdout[i].kind = "status"
               => /\ stdout[i].msg = "initialized"
                  /\ stdout[i].vecs = <<>>
                  /\ IsCommandLine(stdin[i], "initialize")
        /\ stdout[i].kind = "embedding"
               => /\ stdout[i].msg = ""
                  /\ Len(stdout[i].vecs) = 1
                  /\ IsCommandLine(stdin[i], "generate_embedding")
        /\ stdout[i].kind = "embeddings"
               => /\ stdout[i].msg = ""
                  /\ IsCommandLine(stdin[i], "generate_embeddings")

\* a run in which the three success shapes were produced
C11_Witness ==
    /\ Len(stdout) = 3
    /\ stdout[1].kind = "embeddings"
    /\ stdout[2].kind = "status"
    /\ stdout[3].kind = "embedding"

\* C12: a command value other than the three commands, the missing command
\* key included, is answered with the error "Unknown command: <value>" that
\* names the value (None for the missing key), whatever the model calls
\* would do: none is made, and the handle is left as it was.
UnknownCommand(line) ==
    /\ IsObject(line)
    /\ ~IsCommand(line.command, "initialize")
    /\ ~IsCommand(line.command, "generate_embedding")
    /\ ~IsCommand(line.command, "generate_embeddings")

C12_UnknownCommand ==
    [][pc = "line" /\ UnknownCommand(CurLine)
         => /\ stdout' = Append(stdout,
                   ErrorResult("Unknown command: " \o
                       (IF CurLine.command.t = "absent"
                        THEN "None" ELSE CurLine.command.s)))
            /\ caught' = Append(caught, NoExc)
            /\ UNCHANGED <<tokenizer, model, stderr, loads, attempts>>]_vars

\* the missing key and an unknown name were both answered
C12_Witness ==
    /\ Len(stdout) = 2
    /\ stdin[1].kind = "json" /\ stdin[1].ty = "dict"
    /\ stdin[1].command.t = "absent"
    /\ stdout[1] = ErrorResult("Unknown command: None")
    /\ UnknownCommand(stdin[2]) /\ stdin[2].command.t = "str"
    /\ stdout[2] = ErrorResult("Unknown command: foo")

\* the same generate_embedding command: identical text and is_query
SameEmbeddingCommand(a, b) ==
    /\ IsCommandLine(a, "generate_embedding")
    /\ IsCommandLine(b, "generate_embedding")
    /\ a.text = b.text
    /\ Get(a, "is_query", BoolV(FALSE)) = Get(b, "is_query", BoolV(FALSE))

LinesProcessed == IF pc = "line" THEN Len(stdin) - 1 ELSE Len(stdin)

\* C14: standard output carries response lines only, as many as input lines
\* were processed; the startup banner and the two initialisation messages
\* are on standard error, in that order, and nowhere else.
C14_StdoutOnlyResponses ==
    /\ Len(stdout) = LinesProcessed
    /\ \A i \in 1..Len(stdout) :
          stdout[i].kind \in {"embedding", "embeddings", "status", "error"}
    /\ pc # "start" =>
          /\ Len(stderr) >= 2
          /\ stderr[1] = "E5 Embedding Service started"
          /\ stderr[2] = "Initializing E5 model..."
    /\ Ready =>
          stderr = <<"E5 Embedding Service started",
                     "Initializing E5 model...",
                     "Model initialized: intfloat/multilingual-e5-large-instruct">>

\* the banner and both messages were printed and two lines were answered
C14_Witness ==
    /\ Len(stderr) = 3
    /\ Len(stdin) = 2
    /\ Len(stdout) = 2
    /\ pc = "read"

\* C15: no command reaches a terminal state: after every input line, of any
\* content and whatever its model call does, the service is back at reading
\* the next line; and when the input is finite and closes, the serving
\* process eventually terminates having answered every line it read.
C15_ServesUntilEndOfInput ==
    /\ [][pc = "line" => pc' = "read" /\ Len(stdout') = Len(stdin)]_vars
    /\ [][pc' = "done" => pc = "read" /\ stdin' = stdin]_vars
    /\ (pc \in {"read", "line"}) ~> (pc = "done" /\ Len(stdout) = Len(stdin))

\* terminated at the end of input after a line whose model call failed and a
\* malformed line
C15_Witness ==
    /\ pc = "done"
    /\ Len(stdin) = 2 /\ Len(stdout) = 2
    /\ caught[1] \in {"tokenizer failed", "forward pass failed"}
    /\ stdin[2] = Malformed

\* a vector as the pipeline returns it stands for v / ||v||: it has norm 1
\* exactly when it is the primitive vector of a direction, not the zero
\* vector and not a multiple that was left undivided
UnitVector(v) == v # <<0, 0>> /\ GCD(Abs(v[1]), Abs(v[2])) = 1

RECURSIVE MaskedSum(_, _)
MaskedSum(h, m) ==
    IF h = <<>> THEN <<0, 0>>
    ELSE IF Head(m) = 1
    THEN <<Head(h)[1] + MaskedSum(Tail(h), Tail(m))[1],
           Head(h)[2] + MaskedSum(Tail(h), Tail(m))[2]>>
    ELSE MaskedSum(Tail(h), Tail(m))

\* the pooled rows are the exact quotients sum / count of hidden and mask
IsMaskedMean(pooled, hidden, mask) ==
    /\ Len(pooled) = Len(hidden)
    /\ \A i \in 1..Len(pooled) :
          /\ pooled[i].den = SumSeq(mask[i])
          /\ pooled[i].den >= 1
          /\ pooled[i].num = MaskedSum(hidden[i], mask[i])

\* C17: for a mask with at least one real token per row, the pooled vector
\* of a row is the sum of the hidden vectors at its mask-1 positions divided
\* by the number of those positions; it does not change when the values at
\* mask-0 positions change or when padding columns are added.
C17_MaskedMean ==
    /\ pipe.pooled # <<>> => IsMaskedMean(pipe.pooled, pipe.hidden, pipe.mask)
    /\ pipe.pooled2 # <<>>
          => IsMaskedMean(pipe.pooled2, pipe.hidden2, pipe.mask2)
    /\ pipe.pooled # <<>> /\ pipe.pooled2 # <<>> =>
          \A i \in 1..Len(pipe.pooled) : \A c \in 1..2 :
              pipe.pooled[i].num[c] * pipe.pooled2[i].den
                  = pipe.pooled2[i].num[c] * pipe.pooled[i].den

\* both batches pooled: the variant has another value at a masked position
\* of the first row and one more padding column
C17_Witness ==
    /\ pipe.pooled # <<>> /\ pipe.pooled2 # <<>>
    /\ pipe.mask = <<<<1, 0, 1>>, <<1, 1, 1>>>>
    /\ pipe.mask2 = <<<<1, 0, 1, 0>>, <<1, 1, 1, 0>>>>
    /\ pipe.hidden2[1][2] # pipe.hidden[1][2]
    /\ pipe.pooled[1].den = 2
    /\ pipe.pooled[1].num # pipe.pooled[2].num

\* what the claim says the formatter returns
Formatted(text, is_query) ==
    IF is_query = BoolV(TRUE)
    THEN [t |-> "str",
          s |-> <<"Instruct: Given a web search query, retrieve relevant passages that answer the query\n",
                  "Query: ">> \o text.s,
          l |-> <<>>]
    ELSE text

\* C18: the formatter returns its text unchanged when is_query is false and
\* the fixed instruction prefix followed by the unchanged text when it is
\* true; on a batch the same flag is applied to every element, one by one
\* and in order, so the formatted list has the length and order of the input.
C18_FormatPerElement ==
    /\ \A k \in 1..Len(pipe.formatted) :
          pipe.formatted[k] = Formatted(pipe.texts.l[k], pipe.is_query)
    /\ pipe.input_texts # None =>
          /\ pipe.input_texts.t = "list"
          /\ Len(pipe.input_texts.l) = Len(pipe.texts.l)
          /\ \A k \in 1..Len(pipe.texts.l) :
                pipe.input_texts.l[k]
                    = Formatted(pipe.texts.l[k], pipe.is_query)

\* a query batch of two different texts formatted both ways
C18_Witness ==
    /\ pipe.is_query = BoolV(TRUE)
    /\ pipe.texts.l = <<str_ba, str_a>>
    /\ Len(pipe.formatted) = 2
    /\ pipe.input_texts # None
    /\ pipe.input_texts.l[1] # pipe.input_texts.l[2]

\* a line the service rejects before the pipeline: it does not parse, names
\* no known command, or is a generate command without a usable argument
Rejected(line) ==
    \/ line.kind # "json"
    \/ UnknownCommand(line)
    \/ /\ IsCommandLine(line, "generate_embedding")
       /\ line.text.t = "absent" \/ line.text = StrV(<<>>)
    \/ /\ IsCommandLine(line, "generate_embeddings")
       /\ \/ line.texts.t = "absent"
          \/ line.texts.t # "list"
          \/ line.texts = ListV(<<>>)

\* C19: a rejected line leaves the model handle as it was, Uninitialized or
\* Ready: no load is attempted, nothing is loaded and nothing is written to
\* standard error.
C19_RejectedLeavesHandle ==
    [][pc = "line" /\ Rejected(CurLine)
         => /\ UNCHANGED <<tokenizer, model, loads, attempts, stderr>>
            /\ Len(stdout') = Len(stdout) + 1
            /\ stdout'[Len(stdout')].kind = "error"]_vars

\* two rejected lines were answered with nothing loaded
C19_Witness ==
    /\ pc = "read"
    /\ tokenizer = "None" /\ model = "None" /\ attempts = 0
    /\ Len(stdout) = 2
    /\ IsCommandLine(stdin[1], "generate_embeddings") /\ Rejected(stdin[1])
    /\ stdin[2] = Malformed

==============================================================================
